---- MODULE Spec2Model ----
(***************************************************************************)
(* A model of the livestream examples of building-ai-agents-with-gemini-   *)
(* dspy: the SimpleAgent of examples/03_simple_agent.py (task router and   *)
(* in-memory reminder store) and the two pure tools of                     *)
(* examples/04_react_agent.py (get_weather, get_day_of_week).              *)
(*                                                                         *)
(* Python values.  A value that may be None is a pair: Str(s) is the       *)
(* string s and None is Python's None.  Strings that the code only         *)
(* compares, stores and formats are TLA+ strings; strings whose characters *)
(* the code inspects (str.lower, datetime.fromisoformat) are sequences of  *)
(* one-character strings.  The emoji that start the agent's messages are   *)
(* left out of the string literals; the rest of each literal is verbatim.  *)
(* Console output (print, and _show_prompt_and_response under verbose)     *)
(* changes no state and is not modelled.  A Predictor call either returns  *)
(* a prediction or fails with an exception that the agent does not catch.  *)
(***************************************************************************)
EXTENDS Integers, Sequences, FiniteSets, TLC

VARIABLES
    env,          \* what os.getenv("GEMINI_API_KEY") returns
    agent,        \* "absent" | "ready" | "failed": the outcome of SimpleAgent()
    lm,           \* TRUE once the Gemini client is constructed and configured
    reminders,    \* self.reminders
    now,          \* the clock datetime.now() reads; it ticks once per request
    pc,           \* the router's state for the current request
    user_request, \* the argument of the current process_request call
    analysis,     \* the TaskAnalyzer prediction of the current request
    handler,      \* the handler process_request dispatched to
    prediction,   \* the prediction the handler's Predictor returned
    trace,        \* Predictor calls and handler entries of the current request
    returned,     \* the most recent call and the value it returned
    log,          \* the requests so far, in arrival order
    tool          \* the most recent tool call of the ReAct example

vars == <<env, agent, lm, reminders, now, pc, user_request, analysis, handler,
          prediction, trace, returned, log, tool>>

agentVars == <<env, agent, lm, reminders, now, pc, user_request, analysis,
               handler, prediction, trace, returned, log>>

\* Bounds of the model.
MaxRequests == 3

None == <<"none", "">>

Str(s) == <<"str", s>>

\* bool(v) for v a string or None: `not api_key`, `not self.reminders`.
truthy(v) == v # None /\ v # Str("")

\* What an f-string makes of {v}: str(v).
format(v) == IF v = None THEN "None" ELSE v[2]

\* The requests the operator types.
Requests == {"What is 15 multiplied by 23?", "Remind me to call mom"}

\* What the model may put in an output field: text, nothing, or no field at
\* all (spec 4.2: "that field's value is empty/undefined rather than raising").
TaskTypes ==
    {Str("calculation"), Str("question"), Str("reminder"), Str("weather"),
     Str("unknown"), Str("Calculation"), Str(""), None}

ExtractedInfos == {Str("15 * 23"), Str("")}

Answers == {Str("345"), Str(""), None}

ReminderTexts == {Str("Call mom"), Str(""), None}

SuggestedTimes == {Str("2 PM"), Str("")}

NoAnalysis == [task_type |-> None, extracted_info |-> None]

NoReturn == [call |-> "none", value |-> None]

NotCalled == [raised |-> FALSE, pending |-> TRUE]

NoCall == [fn |-> "none", city |-> "", arg |-> <<>>, out |-> NotCalled]

(***************************************************************************)
(* setup_dspy and SimpleAgent.__init__                                     *)
(***************************************************************************)

\* setup_dspy with the key tested by `is None` instead of truthiness.
setup_dspy_is_none(api_key) ==
    IF api_key = None
    THEN [raised |-> TRUE, lm |-> FALSE]
    ELSE [raised |-> FALSE, lm |-> TRUE]

\* setup_dspy: raises ValueError when the key is falsy, before Gemini(...) is
\* constructed; otherwise constructs the client and configures dspy with it.
setup_dspy(api_key) ==
    IF ~truthy(api_key)
    THEN [raised |-> TRUE, lm |-> FALSE]
    ELSE [raised |-> FALSE, lm |-> TRUE]

\* SimpleAgent.__init__: setup_dspy() first; its exception leaves no agent.
SimpleAgent_init ==
    /\ agent = "absent"
    /\ LET s == setup_dspy(env) IN
         /\ lm' = s.lm
         /\ agent' = IF s.raised THEN "failed" ELSE "ready"
    /\ reminders' = <<>>
    /\ UNCHANGED <<env, now, pc, user_request, analysis, handler, prediction,
                   trace, returned, log, tool>>

(***************************************************************************)
(* SimpleAgent.process_request                                             *)
(***************************************************************************)

Predict(name, input, ok) ==
    [kind |-> "predict", name |-> name, input |-> input, ok |-> ok]

Enter(name) == [kind |-> "handler", name |-> name, input |-> None, ok |-> TRUE]

SetLast(s, f, v) == [s EXCEPT ![Len(s)] = [@ EXCEPT ![f] = v]]

\* An exception leaves process_request: nothing is returned.
Raise ==
    /\ pc' = "raised"
    /\ returned' = [call |-> "process_request", value |-> None]
    /\ log' = SetLast(log, "status", "raised")

\* A handler returns and process_request returns its result.
Complete(value) ==
    /\ pc' = "completed"
    /\ returned' = [call |-> "process_request", value |-> Str(value)]
    /\ log' = SetLast(log, "status", "completed")

\* The call arrives (line 85).
process_request(request) ==
    /\ agent = "ready"
    /\ pc \in {"idle", "completed", "raised"}
    /\ Len(log) < MaxRequests
    /\ pc' = "received"
    /\ user_request' = request
    /\ now' = now + 1
    /\ analysis' = NoAnalysis
    /\ handler' = "none"
    /\ prediction' = None
    /\ trace' = <<>>
    /\ returned' = NoReturn
    /\ log' = Append(log, [reminder |-> FALSE, status |-> "running", out |-> None])
    /\ UNCHANGED <<env, agent, lm, reminders, tool>>

\* analysis = self.task_analyzer(user_request=user_request) (line 88): the
\* Predictor returns a prediction or the call fails.
classify ==
    /\ pc = "received"
    /\ \/ \E t \in TaskTypes, e \in ExtractedInfos :
            /\ analysis' = [task_type |-> t, extracted_info |-> e]
            /\ trace' = Append(trace, Predict("task_analyzer", Str(user_request), TRUE))
            /\ pc' = "classified"
            /\ log' = SetLast(log, "reminder", t = Str("reminder"))
            /\ UNCHANGED returned
       \/ /\ trace' = Append(trace, Predict("task_analyzer", Str(user_request), FALSE))
          /\ Raise
          /\ UNCHANGED analysis
    /\ UNCHANGED <<env, agent, lm, reminders, now, user_request, handler,
                   prediction, tool>>

\* The if/elif chain with its string comparisons made case-insensitive.
route_ignoring_case(task_type) ==
    IF task_type \in {Str("calculation"), Str("Calculation")} THEN "calculation"
    ELSE IF task_type = Str("question") THEN "question"
    ELSE IF task_type = Str("reminder") THEN "reminder"
    ELSE IF task_type = Str("weather") THEN "weather"
    ELSE "unknown"

\* The if/elif chain with the question and reminder branches swapped.
route_swapped(task_type) ==
    IF task_type = Str("calculation") THEN "calculation"
    ELSE IF task_type = Str("question") THEN "reminder"
    ELSE IF task_type = Str("reminder") THEN "question"
    ELSE IF task_type = Str("weather") THEN "weather"
    ELSE "unknown"

\* The if/elif chain of lines 97-106: the handler a label selects.
route(task_type) ==
    IF task_type = Str("calculation") THEN "calculation"
    ELSE IF task_type = Str("question") THEN "question"
    ELSE IF task_type = Str("reminder") THEN "reminder"
    ELSE IF task_type = Str("weather") THEN "weather"
    ELSE "unknown"

\* Lines 96-106: the selected handler is entered.
dispatch ==
    /\ pc = "classified"
    /\ handler' = route(analysis.task_type)
    /\ trace' = Append(trace, Enter(handler'))
    /\ pc' = "dispatched"
    /\ UNCHANGED <<env, agent, lm, reminders, now, user_request, analysis,
                   prediction, returned, log, tool>>

\* The string _handle_calculation returns (line 116).
calculation_text(result) == "Calculation Result: " \o format(result)

\* The string _handle_question returns (line 126).
question_text(answer) == "Answer: " \o format(answer)

\* The string _handle_reminder returns (line 144).
reminder_text(text, time) ==
    "Reminder created: " \o format(text) \o "\n  Suggested time: " \o format(time)

\* The string _handle_weather returns (line 149).
weather_text ==
    "Weather: I don't have access to real weather data yet, but I can help you set up a weather API integration!"

\* _handle_unknown returning fallback.answer alone.
unknown_text_answer_only(answer) == format(answer)

\* The string _handle_unknown returns (line 160).
unknown_text(answer) ==
    "I'm not sure exactly what you need, but here's my best attempt to help: "
        \o format(answer)

\* Line 154.
fallback_question(request) == "How can I help with this request: " \o request

\* _handle_calculation(analysis.extracted_info)
_handle_calculation ==
    /\ pc = "dispatched" /\ handler = "calculation"
    /\ \/ \E r \in Answers :
            /\ prediction' = [result |-> r]
            /\ trace' = Append(trace, Predict("calculator", analysis.extracted_info, TRUE))
            /\ Complete(calculation_text(r))
       \/ /\ trace' = Append(trace, Predict("calculator", analysis.extracted_info, FALSE))
          /\ Raise
          /\ UNCHANGED prediction
    /\ UNCHANGED <<env, agent, lm, reminders, now, user_request, analysis,
                   handler, tool>>

\* _handle_question(user_request)
_handle_question ==
    /\ pc = "dispatched" /\ handler = "question"
    /\ \/ \E a \in Answers :
            /\ prediction' = [answer |-> a]
            /\ trace' = Append(trace, Predict("qa", Str(user_request), TRUE))
            /\ Complete(question_text(a))
       \/ /\ trace' = Append(trace, Predict("qa", Str(user_request), FALSE))
          /\ Raise
          /\ UNCHANGED prediction
    /\ UNCHANGED <<env, agent, lm, reminders, now, user_request, analysis,
                   handler, tool>>

\* The record of lines 137-141.
reminder_record(text, time) ==
    [text |-> text, suggested_time |-> time, created_at |-> now]

\* self.reminders.insert(0, reminder) in place of append.
store_at_front(record) == <<record>> \o reminders

\* self.reminders.append(reminder) (line 142)
store(record) == Append(reminders, record)

\* _handle_reminder storing a placeholder record before it calls the
\* Predictor and filling it in when the call returns.
_handle_reminder_storing_first ==
    /\ pc = "dispatched" /\ handler = "reminder"
    /\ \/ \E x \in ReminderTexts, s \in SuggestedTimes :
            /\ prediction' = [reminder_text |-> x, suggested_time |-> s]
            /\ trace' = Append(trace, Predict("reminder_creator", Str(user_request), TRUE))
            /\ reminders' = store(reminder_record(x, s))
            /\ pc' = "completed"
            /\ returned' = [call |-> "process_request", value |-> Str(reminder_text(x, s))]
            /\ log' = SetLast(SetLast(log, "status", "completed"), "out", <<x, s>>)
       \/ /\ trace' = Append(trace, Predict("reminder_creator", Str(user_request), FALSE))
          /\ Raise
          /\ reminders' = store(reminder_record(None, None))
          /\ UNCHANGED prediction
    /\ UNCHANGED <<env, agent, lm, now, user_request, analysis, handler, tool>>

\* _handle_reminder(user_request)
_handle_reminder ==
    /\ pc = "dispatched" /\ handler = "reminder"
    /\ \/ \E x \in ReminderTexts, s \in SuggestedTimes :
            /\ prediction' = [reminder_text |-> x, suggested_time |-> s]
            /\ trace' = Append(trace, Predict("reminder_creator", Str(user_request), TRUE))
            /\ reminders' = store(reminder_record(x, s))
            /\ pc' = "completed"
            /\ returned' = [call |-> "process_request", value |-> Str(reminder_text(x, s))]
            /\ log' = SetLast(SetLast(log, "status", "completed"), "out", <<x, s>>)
       \/ /\ trace' = Append(trace, Predict("reminder_creator", Str(user_request), FALSE))
          /\ Raise
          /\ UNCHANGED <<prediction, reminders>>
    /\ UNCHANGED <<env, agent, lm, now, user_request, analysis, handler, tool>>

\* _handle_weather putting the request to the qa Predictor.
_handle_weather_asking_model ==
    /\ pc = "dispatched" /\ handler = "weather"
    /\ \/ \E a \in Answers :
            /\ prediction' = [answer |-> a]
            /\ trace' = Append(trace, Predict("qa", Str(user_request), TRUE))
            /\ Complete("Weather: " \o format(a))
       \/ /\ trace' = Append(trace, Predict("qa", Str(user_request), FALSE))
          /\ Raise
          /\ UNCHANGED prediction
    /\ UNCHANGED <<env, agent, lm, reminders, now, user_request, analysis,
                   handler, tool>>

\* _handle_weather(user_request): no Predictor call.
_handle_weather ==
    /\ pc = "dispatched" /\ handler = "weather"
    /\ Complete(weather_text)
    /\ UNCHANGED <<env, agent, lm, reminders, now, user_request, analysis,
                   handler, prediction, trace, tool>>

\* _handle_unknown(user_request)
_handle_unknown ==
    /\ pc = "dispatched" /\ handler = "unknown"
    /\ \/ \E a \in Answers :
            /\ prediction' = [answer |-> a]
            /\ trace' = Append(trace, Predict("qa", Str(fallback_question(user_request)), TRUE))
            /\ Complete(unknown_text(a))
       \/ /\ trace' = Append(trace, Predict("qa", Str(fallback_question(user_request)), FALSE))
          /\ Raise
          /\ UNCHANGED prediction
    /\ UNCHANGED <<env, agent, lm, reminders, now, user_request, analysis,
                   handler, tool>>

(***************************************************************************)
(* SimpleAgent.list_reminders                                              *)
(***************************************************************************)

\* One line of the listing (line 169).
reminder_line(i, reminder) ==
    ToString(i) \o ". " \o format(reminder.text) \o " (suggested: "
        \o format(reminder.suggested_time) \o ")\n"

\* The loop of lines 168-169 over rs[k..], numbering from i.
RECURSIVE enumerate_lines(_, _, _)
enumerate_lines(rs, k, i) ==
    IF k > Len(rs) THEN <<>>
    ELSE <<reminder_line(i, rs[k])>> \o enumerate_lines(rs, k + 1, i + 1)

\* list_reminders without the empty-store test of lines 164-165.
list_reminders_no_empty_case(rs) ==
    <<"Your reminders:\n">> \o enumerate_lines(rs, 1, 1)

\* list_reminders with enumerate(self.reminders) counting from 0.
list_reminders_from_zero(rs) ==
    IF rs = <<>> THEN <<"No reminders stored yet.">>
    ELSE <<"Your reminders:\n">> \o enumerate_lines(rs, 1, 0)

\* The string list_reminders returns, as its lines (str.splitlines(True)).
list_reminders_text(rs) ==
    IF rs = <<>> THEN <<"No reminders stored yet.">>
    ELSE <<"Your reminders:\n">> \o enumerate_lines(rs, 1, 1)

list_reminders ==
    /\ agent = "ready"
    /\ pc \in {"idle", "completed", "raised"}
    /\ pc' = "idle"
    /\ returned' = [call |-> "list_reminders", value |-> list_reminders_text(reminders)]
    /\ UNCHANGED <<env, agent, lm, reminders, now, user_request, analysis,
                   handler, prediction, trace, log, tool>>

(***************************************************************************)
(* The agent's specification                                               *)
(***************************************************************************)

AgentInit ==
    /\ env \in {None, Str(""), Str("key")}
    /\ agent = "absent"
    /\ lm = FALSE
    /\ reminders = <<>>
    /\ now = 0
    /\ pc = "idle"
    /\ user_request = ""
    /\ analysis = NoAnalysis
    /\ handler = "none"
    /\ prediction = None
    /\ trace = <<>>
    /\ returned = NoReturn
    /\ log = <<>>

Init == AgentInit /\ tool = NoCall

Next ==
    \/ SimpleAgent_init
    \/ \E request \in Requests : process_request(request)
    \/ classify
    \/ dispatch
    \/ _handle_calculation
    \/ _handle_question
    \/ _handle_reminder
    \/ _handle_weather
    \/ _handle_unknown
    \/ list_reminders

Spec == Init /\ [][Next]_vars

(***************************************************************************)
(* The tools of the ReAct example: get_weather and get_day_of_week         *)
(***************************************************************************)

LowerLetters ==
    <<"a", "b", "c", "d", "e", "f", "g", "h", "i", "j", "k", "l", "m",
      "n", "o", "p", "q", "r", "s", "t", "u", "v", "w", "x", "y", "z">>

UpperLetters ==
    <<"A", "B", "C", "D", "E", "F", "G", "H", "I", "J", "K", "L", "M",
      "N", "O", "P", "Q", "R", "S", "T", "U", "V", "W", "X", "Y", "Z">>

\* str.lower() of one character.
char_lower(c) ==
    IF \E i \in 1..Len(UpperLetters) : UpperLetters[i] = c
    THEN LowerLetters[CHOOSE i \in 1..Len(UpperLetters) : UpperLetters[i] = c]
    ELSE c

\* str.upper() of one character.
char_upper(c) ==
    IF \E i \in 1..Len(LowerLetters) : LowerLetters[i] = c
    THEN UpperLetters[CHOOSE i \in 1..Len(LowerLetters) : LowerLetters[i] = c]
    ELSE c

\* day_of_week.lower()
str_lower(s) == [i \in 1..Len(s) |-> char_lower(s[i])]

monday == <<"m", "o", "n", "d", "a", "y">>

tuesday == <<"t", "u", "e", "s", "d", "a", "y">>

wednesday == <<"w", "e", "d", "n", "e", "s", "d", "a", "y">>

thursday == <<"t", "h", "u", "r", "s", "d", "a", "y">>

friday == <<"f", "r", "i", "d", "a", "y">>

saturday == <<"s", "a", "t", "u", "r", "d", "a", "y">>

sunday == <<"s", "u", "n", "d", "a", "y">>

WeatherRaised == [raised |-> TRUE, weather |-> None, value |-> None]

\* Lines 41-42: the weather is printed and the sentence returned.
WeatherReturned(city, weather) ==
    [raised |-> FALSE, weather |-> Str(weather),
     value |-> Str("The weather in " \o city \o " is " \o weather \o ".")]

\* The match statement of lines 31-39 on the lowered day.
weather_of(day) ==
    IF day \in {monday, tuesday, friday} THEN Str("rainy")
    ELSE IF day \in {wednesday, thursday} THEN Str("sunny")
    ELSE IF day \in {saturday, sunday} THEN Str("cloudy")
    ELSE None

\* get_weather matching day_of_week itself, without .lower().
get_weather_case_sensitive(city, day_of_week) ==
    LET weather == weather_of(day_of_week) IN
      IF weather = None THEN WeatherRaised
      ELSE WeatherReturned(city, weather[2])

\* get_weather(city, day_of_week): ValueError for a day no case matches.
get_weather(city, day_of_week) ==
    LET weather == weather_of(str_lower(day_of_week)) IN
      IF weather = None THEN WeatherRaised
      ELSE WeatherReturned(city, weather[2])

Digits == <<"0", "1", "2", "3", "4", "5", "6", "7", "8", "9">>

IsDigit(c) == \E i \in 1..Len(Digits) : Digits[i] = c

DigitValue(c) == (CHOOSE i \in 1..Len(Digits) : Digits[i] = c) - 1

RECURSIVE Number(_)
\* int() of a string of digits.
Number(s) ==
    IF s = <<>> THEN 0
    ELSE 10 * Number(SubSeq(s, 1, Len(s) - 1)) + DigitValue(s[Len(s)])

\* datetime's _is_leap with the century rules left out.
is_leap_every_fourth(year) == year % 4 = 0

\* datetime's _is_leap.
is_leap(year) == year % 4 = 0 /\ (year % 100 # 0 \/ year % 400 = 0)

DaysInMonth == <<31, 28, 31, 30, 31, 30, 31, 31, 30, 31, 30, 31>>

\* datetime's _days_in_month.
days_in_month(year, month) ==
    IF month = 2 /\ is_leap(year) THEN 29 ELSE DaysInMonth[month]

\* datetime's _days_before_year: the days before January 1st of year.
days_before_year(year) ==
    LET y == year - 1 IN y * 365 + (y \div 4) - (y \div 100) + (y \div 400)

RECURSIVE days_before_month(_, _)
\* datetime's _days_before_month: the days of year before the 1st of month.
days_before_month(year, month) ==
    IF month = 1 THEN 0
    ELSE days_before_month(year, month - 1) + days_in_month(year, month - 1)

\* date.toordinal(): January 1st of year 1 is day 1.
toordinal(year, month, day) ==
    days_before_year(year) + days_before_month(year, month) + day

\* date.weekday(): Monday is 0.
weekday(year, month, day) == (toordinal(year, month, day) + 6) % 7

\* What strftime("%A") names the weekdays 0..6.
DayNames ==
    <<"Monday", "Tuesday", "Wednesday", "Thursday", "Friday", "Saturday", "Sunday">>

\* The shape YYYY-MM-DD that datetime.fromisoformat accepts for a date with
\* no time part.
has_date_shape(s) ==
    /\ Len(s) = 10
    /\ s[5] = "-" /\ s[8] = "-"
    /\ \A i \in {1, 2, 3, 4, 6, 7, 9, 10} : IsDigit(s[i])

\* datetime.fromisoformat(date_string) of a string with no time part:
\* ValueError unless it has the shape and names a date of years 1..9999.
fromisoformat(s) ==
    IF ~has_date_shape(s) THEN [raised |-> TRUE]
    ELSE LET year == Number(SubSeq(s, 1, 4))
             month == Number(SubSeq(s, 6, 7))
             day == Number(SubSeq(s, 9, 10))
         IN  IF /\ year \in 1..9999
                /\ month \in 1..12
                /\ day \in 1..days_in_month(year, month)
             THEN [raised |-> FALSE, year |-> year, month |-> month, day |-> day]
             ELSE [raised |-> TRUE]

\* get_day_of_week(date_string): the exception of fromisoformat propagates.
get_day_of_week(date_string) ==
    LET date == fromisoformat(date_string) IN
      IF date.raised THEN [raised |-> TRUE, value |-> None]
      ELSE [raised |-> FALSE,
            value |-> Str(DayNames[weekday(date.year, date.month, date.day) + 1])]

\* The letters of word, each in either case.
CaseVariants(word) ==
    {[i \in 1..Len(word) |-> IF upper[i] THEN char_upper(word[i]) ELSE word[i]] :
        upper \in [1..Len(word) -> BOOLEAN]}

WeekdayWords == {monday, tuesday, wednesday, thursday, friday, saturday, sunday}

\* Strings that are no weekday name.
OtherWords ==
    {<<"F", "u", "n", "d", "a", "y">>, <<>>, <<"m", "o", "n">>,
     <<"m", "o", "n", "d", "a", "y", "s">>, <<" ", "m", "o", "n", "d", "a", "y">>,
     <<"M", "o", "n", "t", "a", "g">>, <<"3">>}

DayInputs == UNION {CaseVariants(w) : w \in WeekdayWords} \cup OtherWords

Cities == {"Paris", "Tokyo"}

\* n as exactly k decimal digits.
RECURSIVE Padded(_, _)
Padded(n, k) ==
    IF k = 0 THEN <<>> ELSE Padded(n \div 10, k - 1) \o <<Digits[(n % 10) + 1]>>

ISO(year, month, day) ==
    Padded(year, 4) \o <<"-">> \o Padded(month, 2) \o <<"-">> \o Padded(day, 2)

Years == {0, 1900, 2000, 2023, 2024, 9999}

\* Strings that are no date.
OtherDates ==
    {<<>>, <<"M", "o", "n", "d", "a", "y">>,
     <<"2", "0", "2", "4", "-", "1", "-", "1">>,
     <<"2", "0", "2", "4", "/", "0", "1", "/", "0", "1">>,
     <<"2", "0", "2", "4", "-", "0", "1", "-", "0", "a">>,
     <<"2", "0", "2", "4", "-", "0", "1", "-", "-", "1">>,
     <<"+", "0", "2", "4", "-", "0", "1", "-", "0", "1">>,
     <<"2", "4", "-", "0", "1", "-", "0", "1">>}

DateInputs ==
    {ISO(y, m, d) : y \in Years, m \in 0..13, d \in 0..32} \cup OtherDates

\* The tool calls the model may choose, not yet made.
ToolCalls ==
    {[fn |-> "get_weather", city |-> city, arg |-> day, out |-> NotCalled] :
        city \in Cities, day \in DayInputs}
    \cup
    {[fn |-> "get_day_of_week", city |-> "", arg |-> date, out |-> NotCalled] :
        date \in DateInputs}

\* The ReAct loop calls get_weather with the arguments the model chose.
call_get_weather ==
    /\ tool.fn = "get_weather" /\ tool.out = NotCalled
    /\ tool' = [tool EXCEPT !.out = get_weather(tool.city, tool.arg)]
    /\ UNCHANGED agentVars

\* The ReAct loop calls get_day_of_week with the argument the model chose.
call_get_day_of_week ==
    /\ tool.fn = "get_day_of_week" /\ tool.out = NotCalled
    /\ tool' = [tool EXCEPT !.out = get_day_of_week(tool.arg)]
    /\ UNCHANGED agentVars

ToolInit == AgentInit /\ env = Str("key") /\ tool \in ToolCalls

ToolNext == call_get_weather \/ call_get_day_of_week

ToolSpec == ToolInit /\ [][ToolNext]_vars

(***************************************************************************)
(* Properties of the agent                                                 *)
(***************************************************************************)

KnownLabels == {"calculation", "question", "reminder", "weather"}

\* The classification call of the current request returned.
Classified == trace # <<>> /\ trace[1].ok

IsHandlerEntry(e) == e.kind = "handler"

IsPredictCall(e) == e.kind = "predict"

\* The handlers the current request has entered, in order.
HandlersEntered == SelectSeq(trace, IsHandlerEntry)

\* The Predictor calls the current request has issued, in order.
PredictCalls == SelectSeq(trace, IsPredictCall)

\* What the handler named h returns for the prediction p its Predictor gave.
ExpectedResult(h, p) ==
    CASE h = "calculation" -> "Calculation Result: " \o format(p.result)
      [] h = "question" -> "Answer: " \o format(p.answer)
      [] h = "reminder" ->
            "Reminder created: " \o format(p.reminder_text)
                \o "\n  Suggested time: " \o format(p.suggested_time)
      [] h = "weather" ->
            "Weather: I don't have access to real weather data yet, but I can help you set up a weather API integration!"

\* C1: a request classified exactly "calculation", "question", "reminder" or
\* "weather" enters the handler of that name and no other handler, and what
\* process_request returns is that handler's result.
C1_KnownLabelRoutesToItsHandler ==
    \A h \in KnownLabels :
        (Classified /\ analysis.task_type = Str(h)) =>
            /\ pc = "classified" => HandlersEntered = <<>>
            /\ pc \in {"dispatched", "completed", "raised"} =>
                    /\ Len(HandlersEntered) = 1
                    /\ HandlersEntered[1].name = h
                    /\ handler = h
            /\ pc = "completed" => returned.value = Str(ExpectedResult(h, prediction))

C1_Witness ==
    /\ pc = "completed"
    /\ analysis.task_type = Str("question")
    /\ handler = "question"
    /\ returned.value = Str("Answer: 345")

\* C2: a request whose label is not, case-sensitively, one of the four known
\* labels ("unknown", "Calculation", "", a missing label) enters _handle_unknown
\* and no other handler, and the string returned is non-empty.
C2_OtherLabelRoutesToFallback ==
    (Classified /\ analysis.task_type \notin {Str(h) : h \in KnownLabels}) =>
        /\ pc = "classified" => HandlersEntered = <<>>
        /\ pc \in {"dispatched", "completed", "raised"} =>
                /\ Len(HandlersEntered) = 1
                /\ HandlersEntered[1].name = "unknown"
        /\ pc = "completed" =>
                /\ returned.value # None
                /\ Len(returned.value[2]) > 0
                /\ returned.value =
                      Str("I'm not sure exactly what you need, but here's my best attempt to help: "
                            \o format(prediction.answer))

C2_Witness ==
    /\ pc = "completed"
    /\ analysis.task_type = Str("Calculation")
    /\ handler = "unknown"
    /\ prediction = [answer |-> Str("")]

\* The arrival numbers of the requests that were classified "reminder" and
\* completed.
CompletedReminderRequests ==
    {k \in 1..Len(log) : log[k].reminder /\ log[k].status = "completed"}

\* C3: every record of self.reminders belongs to one past request classified
\* "reminder" (it carries that request's prediction and arrival time), no two
\* records belong to the same request, every completed "reminder" request has
\* its record, requests with another label have none, and the records are in
\* arrival order.
C3_RecordsMatchReminderRequests ==
    /\ \A i \in 1..Len(reminders) :
          LET k == reminders[i].created_at IN
            /\ k \in 1..Len(log)
            /\ log[k].reminder
            /\ log[k].status = "completed"
            /\ log[k].out = <<reminders[i].text, reminders[i].suggested_time>>
    /\ \A i, j \in 1..Len(reminders) :
          i < j => reminders[i].created_at < reminders[j].created_at
    /\ {reminders[i].created_at : i \in 1..Len(reminders)} = CompletedReminderRequests
    /\ Len(reminders) = Cardinality(CompletedReminderRequests)
    /\ Len(reminders) <= Cardinality({k \in 1..Len(log) : log[k].reminder})

C3_Witness ==
    /\ Len(log) = 3
    /\ Len(reminders) = 2
    /\ log[1].reminder /\ ~log[2].reminder /\ log[3].reminder
    /\ log[2].status = "completed"
    /\ reminders[1].text # reminders[2].text

\* The predictions of the completed "reminder" requests, in arrival order.
RECURSIVE AppendedFrom(_)
AppendedFrom(k) ==
    IF k > Len(log) THEN <<>>
    ELSE IF log[k].reminder /\ log[k].status = "completed"
         THEN <<log[k].out>> \o AppendedFrom(k + 1)
         ELSE AppendedFrom(k + 1)

\* C4: after N >= 1 reminders were appended, list_reminders returns the header
\* and exactly N entries; the i-th is "i. <text> (suggested: <time>)" with the
\* text and suggested time of the i-th appended reminder.
C4_ListingNumbersRemindersInOrder ==
    (returned.call = "list_reminders" /\ AppendedFrom(1) # <<>>) =>
        LET appended == AppendedFrom(1)
            lines == returned.value
        IN  /\ Len(lines) = Len(appended) + 1
            /\ lines[1] = "Your reminders:\n"
            /\ \A i \in 1..Len(appended) :
                  lines[i + 1] =
                      ToString(i) \o ". " \o format(appended[i][1]) \o " (suggested: "
                          \o format(appended[i][2]) \o ")\n"

C4_Witness ==
    /\ returned.call = "list_reminders"
    /\ Len(reminders) = 2
    /\ returned.value[2] = "1. Call mom (suggested: 2 PM)\n"
    /\ returned.value[3] = "2.  (suggested: )\n"

\* C5: list_reminders returns the fixed message "No reminders stored yet."
\* exactly when the store is empty, which is when no "reminder" request has
\* completed; it never returns nothing or a header without entries.
C5_EmptyStoreListsFixedMessage ==
    returned.call = "list_reminders" =>
        /\ (reminders = <<>>) <=> (CompletedReminderRequests = {})
        /\ (reminders = <<>>) => returned.value = <<"No reminders stored yet.">>
        /\ (reminders # <<>>) => returned.value # <<"No reminders stored yet.">>
        /\ returned.value # <<>>
        /\ Len(returned.value) # 1 => Len(returned.value) = Len(reminders) + 1
        /\ returned.value # <<"Your reminders:\n">>

C5_Witness ==
    /\ returned.call = "list_reminders"
    /\ reminders = <<>>
    /\ Len(log) > 0
    /\ returned.value = <<"No reminders stored yet.">>

\* Some handler can take its step.
HandlerEnabled ==
    \/ ENABLED _handle_calculation
    \/ ENABLED _handle_question
    \/ ENABLED _handle_reminder
    \/ ENABLED _handle_weather
    \/ ENABLED _handle_unknown

\* C6: whatever the model produced, a request goes received, classified,
\* dispatched, completed: each state before completed has its next step, a
\* completed request has returned a non-empty string, and process_request is
\* left by an exception only when a Predictor call itself failed.
C6_RequestCompletesWithNonEmptyString ==
    /\ pc = "received" => ENABLED classify
    /\ pc = "classified" => Classified /\ ENABLED dispatch
    /\ pc = "dispatched" => Classified /\ HandlerEnabled
    /\ pc = "completed" =>
          /\ returned.call = "process_request"
          /\ returned.value # None
          /\ Len(returned.value[2]) > 0
          /\ \A i \in 1..Len(trace) : trace[i].ok
    /\ pc = "raised" =>
          /\ trace # <<>>
          /\ trace[Len(trace)].kind = "predict"
          /\ ~trace[Len(trace)].ok

C6_Witness ==
    /\ pc = "completed"
    /\ analysis = [task_type |-> None, extracted_info |-> Str("")]
    /\ prediction = [answer |-> None]
    /\ returned.value =
          Str("I'm not sure exactly what you need, but here's my best attempt to help: None")

\* C7: with GEMINI_API_KEY absent or empty, SimpleAgent() fails in setup_dspy:
\* no client is ever constructed, no agent exists, and so no request is
\* processed and no Predictor call is issued.
C7_NoCredentialNoClient ==
    /\ ~truthy(env) =>
          /\ ~lm
          /\ agent \in {"absent", "failed"}
          /\ log = <<>>
          /\ trace = <<>>
          /\ pc = "idle"
          /\ returned = NoReturn
    /\ agent = "failed" => ~truthy(env) /\ ~lm
    /\ agent = "ready" => truthy(env) /\ lm

C7_Witness == agent = "failed" /\ env = Str("") /\ ~lm

\* The Predictor whose call the handler named h makes, and the input it gets.
HandlerCall(h) ==
    CASE h = "calculation" -> <<"calculator", analysis.extracted_info>>
      [] h = "question" -> <<"qa", Str(user_request)>>
      [] h = "reminder" -> <<"reminder_creator", Str(user_request)>>
      [] h = "unknown" ->
            <<"qa", Str("How can I help with this request: " \o user_request)>>

\* C10: a request issues one classification call, first; the handler entered
\* after it issues one further call (calculation, question, reminder,
\* fallback) or none (weather); no call follows a failed one, none is repeated.
C10_OneClassificationThenAtMostOneCall ==
    /\ trace # <<>> =>
          /\ trace[1].kind = "predict"
          /\ trace[1].name = "task_analyzer"
          /\ trace[1].input = Str(user_request)
    /\ \A i \in 2..Len(trace) : trace[i].name # "task_analyzer"
    /\ \A i \in 1..Len(trace) : ~trace[i].ok => i = Len(trace)
    /\ Len(trace) >= 2 => trace[2] = Enter(handler)
    /\ Len(trace) <= 3
    /\ Len(trace) = 3 =>
          /\ handler \in {"calculation", "question", "reminder", "unknown"}
          /\ trace[3].kind = "predict"
          /\ <<trace[3].name, trace[3].input>> = HandlerCall(handler)
    /\ pc = "received" => trace = <<>>
    /\ pc = "classified" => Len(trace) = 1
    /\ pc = "dispatched" => Len(trace) = 2
    /\ pc = "completed" => Len(trace) = IF handler = "weather" THEN 2 ELSE 3

C10_Witness ==
    /\ pc = "completed"
    /\ handler = "weather"
    /\ Len(PredictCalls) = 1
    /\ Len(trace) = 2

(***************************************************************************)
(* Properties of the tools                                                 *)
(***************************************************************************)

\* s is the word w with each letter in either case.
SameWordIgnoringCase(s, w) ==
    /\ Len(s) = Len(w)
    /\ \A i \in 1..Len(w) : s[i] = w[i] \/ s[i] = char_upper(w[i])

IsWeekdayName(s) == \E w \in WeekdayWords : SameWordIgnoringCase(s, w)

Sentence(city, weather) == Str("The weather in " \o city \o " is " \o weather \o ".")

\* C8: for a weekday name in any letter case get_weather returns a sentence
\* naming exactly one of rainy, sunny, cloudy, the same one for every city and
\* every casing of that day, and sunny for Wednesday; for any other
\* day_of_week it raises and returns nothing.
C8_WeatherIsCaseInsensitiveLookup ==
    (tool.fn = "get_weather" /\ tool.out # NotCalled) =>
        IF IsWeekdayName(tool.arg)
        THEN /\ ~tool.out.raised
             /\ Cardinality({x \in {"rainy", "sunny", "cloudy"} :
                                tool.out.value = Sentence(tool.city, x)}) = 1
             /\ SameWordIgnoringCase(tool.arg, wednesday) =>
                    tool.out.value = Sentence(tool.city, "sunny")
             /\ \A w \in WeekdayWords :
                    SameWordIgnoringCase(tool.arg, w) =>
                        \A c \in Cities :
                          \A v \in {w, [i \in 1..Len(w) |-> char_upper(w[i])]} :
                            /\ ~get_weather(c, v).raised
                            /\ get_weather(c, v).weather = tool.out.weather
        ELSE /\ tool.out.raised
             /\ tool.out.value = None

C8_Witness ==
    /\ tool.fn = "get_weather"
    /\ tool.out # NotCalled
    /\ tool.city = "Paris"
    /\ tool.arg = <<"W", "e", "d", "n", "e", "s", "d", "A", "Y">>
    /\ tool.out.value = Str("The weather in Paris is sunny.")

\* The Gregorian calendar.
LeapYear(y) == y % 400 = 0 \/ (y % 4 = 0 /\ y % 100 # 0)

MonthLength(y, m) ==
    IF m \in {4, 6, 9, 11} THEN 30
    ELSE IF m = 2 THEN (IF LeapYear(y) THEN 29 ELSE 28)
    ELSE 31

IsCalendarDate(y, m, d) ==
    y \in 1..9999 /\ m \in 1..12 /\ d \in 1..MonthLength(y, m)

\* The calendar dates of the modelled years, each with its YYYY-MM-DD form.
CalendarDates ==
    {<<ymd, ISO(ymd[1], ymd[2], ymd[3])>> :
        ymd \in {x \in Years \X (1..12) \X (1..31) : IsCalendarDate(x[1], x[2], x[3])}}

\* The calendar dates that s writes.
DatesWritten(s) == {p[1] : p \in {q \in CalendarDates : q[2] = s}}

\* Zeller's congruence: the weekday of a Gregorian date, 0 for Saturday.
Zeller(y, m, d) ==
    LET mm == IF m < 3 THEN m + 12 ELSE m
        yy == IF m < 3 THEN y - 1 ELSE y
        k == yy % 100
        j == yy \div 100
    IN  (d + ((13 * (mm + 1)) \div 5) + k + (k \div 4) + (j \div 4) + 5 * j) % 7

ZellerNames ==
    <<"Saturday", "Sunday", "Monday", "Tuesday", "Wednesday", "Thursday", "Friday">>

Tomorrow(y, m, d) ==
    IF d < MonthLength(y, m) THEN <<y, m, d + 1>>
    ELSE IF m < 12 THEN <<y, m + 1, 1>>
    ELSE <<y + 1, 1, 1>>

DayAfter(name) ==
    CASE name = "Monday" -> "Tuesday"
      [] name = "Tuesday" -> "Wednesday"
      [] name = "Wednesday" -> "Thursday"
      [] name = "Thursday" -> "Friday"
      [] name = "Friday" -> "Saturday"
      [] name = "Saturday" -> "Sunday"
      [] name = "Sunday" -> "Monday"

LastCallFailed ==
    /\ trace # <<>>
    /\ trace[Len(trace)].kind = "predict"
    /\ ~trace[Len(trace)].ok

\* The request that just failed left the store as the earlier requests made
\* it, and its exception is what process_request's caller gets.
FailedRequestLeftStoreAlone ==
    pc = "raised" =>
        /\ LastCallFailed
        /\ returned = [call |-> "process_request", value |-> None]
        /\ log[Len(log)].status = "raised"
        /\ \A i \in 1..Len(reminders) : reminders[i].created_at < now
        /\ LET appended == AppendedFrom(1) IN
              /\ Len(reminders) = Len(appended)
              /\ \A i \in 1..Len(reminders) :
                    <<reminders[i].text, reminders[i].suggested_time>> = appended[i]

\* C11: when a Predictor call of a request fails (the classification call or
\* the handler's, the reminder handler's included), the exception leaves
\* process_request and the reminder store is what it was before the request:
\* no step of a request other than its successful completion changes the
\* store, so nothing is appended and the earlier records are as they were.
C11_FailedCallPropagatesAndStoresNothing ==
    /\ [][pc' \in {"received", "classified", "dispatched", "raised"}
            => reminders' = reminders]_vars
    /\ [][(LastCallFailed' /\ trace' # trace) => pc' = "raised"]_vars
    /\ []FailedRequestLeftStoreAlone

C11_Witness ==
    /\ pc = "raised"
    /\ handler = "reminder"
    /\ trace[Len(trace)] = Predict("reminder_creator", Str(user_request), FALSE)
    /\ Len(reminders) = 2
    /\ Len(log) = 3

====
